---- MODULE Spec2Model ----
(***************************************************************************)
(* Model of the promo-request feasibility simulator, simulate_request in   *)
(* src/app.py (lines 311-456).  A snapshot of planning data (schedule,     *)
(* lines, capability, bill of materials, inventory) is loaded once; every  *)
(* step is one call of simulate_request on it.                             *)
(*                                                                         *)
(*                                                                         *)
(*   data       the snapshot dict the calls are given                      *)
(*   loaded     the snapshot as load_master_data_for_sim returned it       *)
(*   calls_left how many more calls the run makes                          *)
(*   request    the arguments of the latest call                           *)
(*   outcome    "none" before any call, then "returned" or "raised"        *)
(*   result     the dict the latest call returned                          *)
(*   visited    the line-days whose capacity the latest call computed      *)
(*   earlier    the [request, outcome, result] of the calls before it      *)
(*                                                                         *)
(* Quantities are whole cases / whole material units.  Dates are day       *)
(* numbers; a timestamp is a day with a time of day.  A DataFrame is a     *)
(* record [ref, rows]: ref is the identity of the Python object (so that   *)
(* an in-place column assignment can be told apart from one on a copy),    *)
(* rows is the sequence of its rows, each row a record.                    *)
(***************************************************************************)
EXTENDS Integers, Sequences, FiniteSets, TLC

VARIABLES data, loaded, calls_left, earlier, request, outcome, result, visited

vars == <<data, loaded, calls_left, earlier, request, outcome, result, visited>>

(* ---------------- bounds of the inputs ---------------- *)
MaxQty == 2
MaxCap == 2
MaxExtra == 3
MaxDate == 2
MaxCalls == 2

LineIds == {"L1", "L2"}
ProductIds == {"P1", "P2"}
MaterialIds == {"M1", "M2"}

(* ---------------- generic helpers ---------------- *)
Range(s) == {s[i] : i \in 1..Len(s)}

Min2(a, b) == IF a <= b THEN a ELSE b
Max2(a, b) == IF a >= b THEN a ELSE b

RECURSIVE SumQty(_)
(* Series.sum() of the planned_qty_cases column *)
SumQty(rows) ==
  IF rows = <<>> THEN 0
  ELSE rows[1].planned_qty_cases + SumQty(Tail(rows))

RECURSIVE unique(_)
(* Series.unique(): distinct values in order of first appearance *)
unique(s) ==
  IF s = <<>> THEN <<>>
  ELSE LET r == unique(SubSeq(s, 1, Len(s) - 1))
           x == s[Len(s)]
       IN IF x \in Range(r) THEN r ELSE Append(r, x)

RECURSIVE sorted(_)
(* sorted(...): ascending sequence of a set of dates *)
sorted(S) ==
  IF S = {} THEN <<>>
  ELSE LET m == CHOOSE x \in S : \A y \in S : x <= y
       IN <<m>> \o sorted(S \ {m})

(* ---------------- DataFrame helpers ---------------- *)
Frame(name, rows) == [ref |-> name, rows |-> rows]

copy_alias(df) == df
(* DataFrame.copy(): a new object with the same rows *)
copy(df) == [ref |-> "local", rows |-> df.rows]

(* A date (a DATE value, or the text of one) is [day]; a timestamp is      *)
(* [day, time].  pd.to_datetime of either is a timestamp, midnight for a    *)
(* date.                                                                    *)
to_datetime(d) ==
  [day |-> d.day, time |-> IF "time" \in DOMAIN d THEN d.time ELSE 0]
(* Timestamp.date() / Series.dt.date: the calendar day, as a day number *)
dt_date(ts) == ts.day
(* line 318: pd.to_datetime raises on a text that is no date *)
parsable(d) == "day" \in DOMAIN d

(* lines 327 and 330: the two column assignments on schedule_df *)
with_date_columns(df) ==
  [df EXCEPT !.rows =
     [i \in 1..Len(df.rows) |->
        [line_id |-> df.rows[i].line_id,
         production_date |-> to_datetime(df.rows[i].production_date),
         product_id |-> df.rows[i].product_id,
         planned_qty_cases |-> df.rows[i].planned_qty_cases,
         is_firm |-> df.rows[i].is_firm,
         prod_date_only |-> dt_date(to_datetime(df.rows[i].production_date))]]]

(* The snapshot after the call: an assignment made through an object that   *)
(* is the snapshot's own frame shows in the snapshot.                       *)
data_after(d, written) ==
  [k \in DOMAIN d |-> IF d[k].ref = written.ref THEN written ELSE d[k]]

(* ---------------- the capacity walk ---------------- *)
sched_window_lt(schedule_df, due_date_obj) ==
  SelectSeq(schedule_df.rows, LAMBDA r : r.prod_date_only < due_date_obj)
(* line 333 *)
sched_window(schedule_df, due_date_obj) ==
  SelectSeq(schedule_df.rows, LAMBDA r : r.prod_date_only <= due_date_obj)

capable_lines_any(cap_df, product_id) ==
  unique([i \in 1..Len(cap_df.rows) |-> cap_df.rows[i].line_id])
capable_lines_reversed(cap_df, product_id) ==
  LET rows == SelectSeq(cap_df.rows, LAMBDA r : r.product_id = product_id)
  IN unique([i \in 1..Len(rows) |-> rows[Len(rows) + 1 - i].line_id])
(* line 336 *)
capable_lines(cap_df, product_id) ==
  LET rows == SelectSeq(cap_df.rows, LAMBDA r : r.product_id = product_id)
  IN unique([i \in 1..Len(rows) |-> rows[i].line_id])

(* line 361 *)
line_cap_row(lines_df, line_id) ==
  SelectSeq(lines_df.rows, LAMBDA r : r.line_id = line_id)

(* lines 368-371 *)
todays_runs(window, line_id, this_date) ==
  SelectSeq(window, LAMBDA r : r.line_id = line_id /\ r.prod_date_only = this_date)

total_planned_firm(runs) ==
  SumQty(SelectSeq(runs, LAMBDA r : r.is_firm))
(* line 373 *)
total_planned(runs) ==
  IF Len(runs) > 0 THEN SumQty(runs) ELSE 0

headroom_unclamped(daily_capacity, total) == daily_capacity - total
(* line 374 *)
headroom(daily_capacity, total) == Max2(daily_capacity - total, 0)

flex_cases_all(runs) == SumQty(runs)
(* line 377 *)
flex_cases(runs) ==
  IF Len(runs) > 0 THEN SumQty(SelectSeq(runs, LAMBDA r : ~r.is_firm)) ELSE 0

plan_row_headroom_only(line_id, this_date, allocate_now, hr) ==
  [line_id |-> line_id,
   production_date |-> this_date,
   allocated_cases |-> Min2(hr, allocate_now),
   used_headroom |-> Min2(hr, allocate_now),
   bumped_flexible |-> Max2(0, allocate_now - hr)]
plan_row_unclamped(line_id, this_date, allocate_now, hr) ==
  [line_id |-> line_id,
   production_date |-> this_date,
   allocated_cases |-> allocate_now,
   used_headroom |-> Min2(hr, allocate_now),
   bumped_flexible |-> allocate_now - hr]
(* lines 385-391 *)
plan_row(line_id, this_date, allocate_now, hr) ==
  [line_id |-> line_id,
   production_date |-> this_date,
   allocated_cases |-> allocate_now,
   used_headroom |-> Min2(hr, allocate_now),
   bumped_flexible |-> Max2(0, allocate_now - hr)]

allocate_now_all(possible_today, remaining) == possible_today
(* line 383 *)
allocate_now(possible_today, remaining) == Min2(possible_today, remaining)

(* lines 360-393: the body of the inner loop for one (date, line); st is    *)
(* the loop state [remaining, plan_rows, visited].                          *)
line_day(st, line_id, this_date, window, lines_df) ==
  LET row == line_cap_row(lines_df, line_id) IN
  IF row = <<>> THEN st
  ELSE
    LET daily_capacity == row[1].daily_capacity_cases
        runs == todays_runs(window, line_id, this_date)
        total == total_planned(runs)
        hr == headroom(daily_capacity, total)
        flex == flex_cases(runs)
        possible_today == hr + flex
        seen == Append(st.visited,
                  [line_id |-> line_id, date |-> this_date,
                   daily_capacity |-> daily_capacity, total_planned |-> total,
                   headroom |-> hr, flex_cases |-> flex,
                   remaining_before |-> st.remaining])
    IN IF possible_today <= 0
       THEN [st EXCEPT !.visited = seen]
       ELSE LET now == allocate_now(possible_today, st.remaining)
            IN [remaining |-> st.remaining - now,
                plan_rows |-> Append(st.plan_rows,
                                plan_row(line_id, this_date, now, hr)),
                visited |-> seen]

RECURSIVE walk_lines_no_break(_, _, _, _, _, _)
walk_lines_no_break(st, i, lines, this_date, window, lines_df) ==
  IF i > Len(lines) THEN st
  ELSE walk_lines_no_break(line_day(st, lines[i], this_date, window, lines_df),
                           i + 1, lines, this_date, window, lines_df)
RECURSIVE walk_lines(_, _, _, _, _, _)
(* lines 356-393: for line_id in capable_lines *)
walk_lines(st, i, lines, this_date, window, lines_df) ==
  IF i > Len(lines) \/ st.remaining <= 0 THEN st
  ELSE walk_lines(line_day(st, lines[i], this_date, window, lines_df),
                  i + 1, lines, this_date, window, lines_df)

window_dates_calendar(window) ==
  LET days == {window[i].prod_date_only : i \in 1..Len(window)}
  IN sorted({d \in 1..MaxDate : \E e \in days : d <= e})
(* line 352: sorted(sched_window["prod_date_only"].unique()) *)
window_dates(window) ==
  sorted(Range(unique([i \in 1..Len(window) |-> window[i].prod_date_only])))

RECURSIVE walk_dates(_, _, _, _, _, _)
(* lines 352-393: for this_date in sorted(unique dates of the window) *)
walk_dates(st, j, dates, lines, window, lines_df) ==
  IF j > Len(dates) \/ st.remaining <= 0 THEN st
  ELSE walk_dates(walk_lines(st, 1, lines, dates[j], window, lines_df),
                  j + 1, dates, lines, window, lines_df)

(* ---------------- the material check ---------------- *)
allocated_total_requested(extra_cases, remaining) == extra_cases
(* line 395 *)
allocated_total(extra_cases, remaining) == extra_cases - remaining

RECURSIVE merge_inner(_, _)
merge_inner(left, right) ==
  IF left = <<>> THEN <<>>
  ELSE LET l == left[1]
           m == SelectSeq(right, LAMBDA r : r.material_id = l.material_id)
       IN [i \in 1..Len(m) |->
             [material_id |-> l.material_id,
              needed_qty |-> l.needed_qty,
              lead |-> l.supplier_lead_time_days,
              on_hand_qty |-> <<m[i].on_hand_qty>>]]
          \o merge_inner(Tail(left), right)
RECURSIVE merge_left(_, _)
(* lines 403-408: pd.merge(sku_bom, inv_df, on="material_id", how="left") *)
merge_left(left, right) ==
  IF left = <<>> THEN <<>>
  ELSE LET l == left[1]
           m == SelectSeq(right, LAMBDA r : r.material_id = l.material_id)
           joined == IF m = <<>>
                     THEN <<[material_id |-> l.material_id,
                             needed_qty |-> l.needed_qty,
                             lead |-> l.supplier_lead_time_days,
                             on_hand_qty |-> <<>>]>>
                     ELSE [i \in 1..Len(m) |->
                             [material_id |-> l.material_id,
                              needed_qty |-> l.needed_qty,
                              lead |-> l.supplier_lead_time_days,
                              on_hand_qty |-> <<m[i].on_hand_qty>>]]
       IN joined \o merge_left(Tail(left), right)

RECURSIVE shortages(_)
(* lines 409-416: one blocker per merged row whose need exceeds the stock *)
shortages(merged) ==
  IF merged = <<>> THEN <<>>
  ELSE LET r == merged[1]
           need == r.needed_qty
           have == IF r.on_hand_qty # <<>> THEN r.on_hand_qty[1] ELSE 0
           rest == shortages(Tail(merged))
       IN IF need > have
          THEN <<[material |-> r.material_id, shortage |-> need - have,
                  lead |-> r.lead]>> \o rest
          ELSE rest

material_check_bom_only(bom_df, inv_df, product_id, total) ==
  LET sku == SelectSeq(bom_df.rows, LAMBDA r : r.product_id = product_id)
  IN shortages(merge_left(
       [i \in 1..Len(sku) |->
          [material_id |-> sku[i].material_id,
           supplier_lead_time_days |-> sku[i].supplier_lead_time_days,
           needed_qty |-> sku[i].qty_per_case * total]],
       inv_df.rows))
(* lines 399-418 *)
material_check(bom_df, inv_df, product_id, total) ==
  LET sku == SelectSeq(bom_df.rows, LAMBDA r : r.product_id = product_id)
  IN IF Len(sku) > 0
     THEN shortages(merge_left(
            [i \in 1..Len(sku) |->
               [material_id |-> sku[i].material_id,
                supplier_lead_time_days |-> sku[i].supplier_lead_time_days,
                needed_qty |-> sku[i].qty_per_case * total]],
            inv_df.rows))
     ELSE <<[material |-> "none", shortage |-> 0, lead |-> 0]>>

(* ---------------- the verdict ---------------- *)
capacity_check_nonneg(remaining, due_date_obj) ==
  IF remaining >= 0
  THEN <<[short |-> remaining, before |-> due_date_obj]>>
  ELSE <<>>
(* lines 421-425 *)
capacity_check(remaining, due_date_obj) ==
  IF remaining > 0
  THEN <<[short |-> remaining, before |-> due_date_obj]>>
  ELSE <<>>

can_fulfill_capacity_only(remaining, mat_blockers) == remaining <= 0
(* lines 428, 433, 446 *)
can_fulfill(remaining, mat_blockers) ==
  remaining <= 0 /\ Len(mat_blockers) = 0

message_first_only(extra_cases, due_date_obj, remaining, total, mat_blockers) ==
  IF remaining <= 0 /\ Len(mat_blockers) = 0
  THEN <<[clause |-> "approved", cases |-> extra_cases, by |-> due_date_obj]>>
  ELSE IF total > 0
       THEN <<[clause |-> "cover", cases |-> total, by |-> due_date_obj]>>
       ELSE IF remaining > 0
            THEN <<[clause |-> "remaining", cases |-> remaining, by |-> due_date_obj]>>
            ELSE <<[clause |-> "materials", cases |-> Len(mat_blockers),
                    by |-> due_date_obj]>>
(* lines 428-445 *)
message(extra_cases, due_date_obj, remaining, total, mat_blockers) ==
  IF remaining <= 0 /\ Len(mat_blockers) = 0
  THEN <<[clause |-> "approved", cases |-> extra_cases, by |-> due_date_obj]>>
  ELSE (IF total > 0
        THEN <<[clause |-> "cover", cases |-> total, by |-> due_date_obj]>>
        ELSE <<>>)
       \o (IF remaining > 0
           THEN <<[clause |-> "remaining", cases |-> remaining, by |-> due_date_obj]>>
           ELSE <<>>)
       \o (IF mat_blockers # <<>>
           THEN <<[clause |-> "materials", cases |-> Len(mat_blockers),
                   by |-> due_date_obj]>>
           ELSE <<>>)

no_line_result_zero(extra_cases) ==
  [can_fulfill |-> FALSE, allocated_total |-> 0, remaining |-> 0,
   plan_rows |-> <<>>,
   material_blockers |-> <<[material |-> "no line", shortage |-> 0, lead |-> 0]>>,
   capacity_blockers |-> <<[short |-> 0, before |-> 0]>>,
   message |-> <<[clause |-> "no line", cases |-> 0, by |-> 0]>>]
(* lines 338-346 *)
no_line_result(extra_cases) ==
  [can_fulfill |-> FALSE, allocated_total |-> 0, remaining |-> extra_cases,
   plan_rows |-> <<>>,
   material_blockers |-> <<[material |-> "no line", shortage |-> 0, lead |-> 0]>>,
   capacity_blockers |-> <<[short |-> 0, before |-> 0]>>,
   message |-> <<[clause |-> "no line", cases |-> 0, by |-> 0]>>]

result_dict_plan_if_materials(can, total, remaining, plan_rows, mat_blockers, cap_blockers, msg) ==
  [can_fulfill |-> can,
   allocated_total |-> total,
   remaining |-> remaining,
   plan_rows |-> IF mat_blockers = <<>> THEN plan_rows ELSE <<>>,
   material_blockers |-> mat_blockers,
   capacity_blockers |-> cap_blockers,
   message |-> msg]
(* lines 448-456: the returned dict *)
result_dict(can, total, remaining, plan_rows, mat_blockers, cap_blockers, msg) ==
  [can_fulfill |-> can,
   allocated_total |-> total,
   remaining |-> remaining,
   plan_rows |-> plan_rows,
   material_blockers |-> mat_blockers,
   capacity_blockers |-> cap_blockers,
   message |-> msg]

NoResult == [none |-> TRUE]

(* lines 319-456: the call once the due date is parsed *)
simulate_parsed(product_id, extra_cases, due_date_str, d) ==
  LET due_date_obj == dt_date(to_datetime(due_date_str))
      schedule_df == with_date_columns(copy(d.schedule))
      lines_df == copy(d.lines)
      cap_df == copy(d.capability)
      bom_df == copy(d.bom)
      inv_df == copy(d.inventory)
      after == data_after(d, schedule_df)
      window == sched_window(schedule_df, due_date_obj)
      lines == capable_lines(cap_df, product_id)
  IN IF lines = <<>>
     THEN [outcome |-> "returned", result |-> no_line_result(extra_cases),
           visited |-> <<>>, data |-> after]
     ELSE
       LET dates == window_dates(window)
           st == walk_dates([remaining |-> extra_cases, plan_rows |-> <<>>,
                             visited |-> <<>>],
                            1, dates, lines, window, lines_df)
           remaining == st.remaining
           total == allocated_total(extra_cases, remaining)
           mat_blockers == material_check(bom_df, inv_df, product_id, total)
       IN [outcome |-> "returned",
           result |->
             result_dict(can_fulfill(remaining, mat_blockers), total, remaining,
                         st.plan_rows, mat_blockers,
                         capacity_check(remaining, due_date_obj),
                         message(extra_cases, due_date_obj, remaining, total,
                                 mat_blockers)),
           visited |-> st.visited,
           data |-> after]

(* lines 311-456: the whole call.  The value is [outcome, result, visited,  *)
(* data]: whether it returned or raised, the returned dict, the line-days   *)
(* whose capacity was computed, and the snapshot as the call leaves it.     *)
simulate_request(product_id, extra_cases, due_date_str, d) ==
  IF ~parsable(due_date_str)
  THEN [outcome |-> "raised", result |-> NoResult, visited |-> <<>>, data |-> d]
  ELSE simulate_parsed(product_id, extra_cases, due_date_str, d)

(* ---------------- the snapshots ---------------- *)
ScheduleRow(qtys) ==
  [line_id : LineIds, production_date : [day : 1..MaxDate], product_id : ProductIds,
   planned_qty_cases : qtys, is_firm : BOOLEAN]

SeqsUpTo2(S) == {<<>>} \cup {<<a>> : a \in S} \cup {<<a, b>> : a, b \in S}

LineRow(l, c) == [line_id |-> l, line_name |-> l, daily_capacity_cases |-> c]
CapRow(l, p) == [line_id |-> l, product_id |-> p, rate_cases_per_hour |-> 1]
BomRow ==
  [product_id : ProductIds, material_id : MaterialIds, qty_per_case : 0..MaxQty,
   supplier_lead_time_days : {7}]
InvRow(m, q) == [material_id |-> m, on_hand_qty |-> q]
ProductRow(p) == [product_id |-> p, product_name |-> p]

(* inventory: each material has one row or none (a negative choice) *)
Inventories ==
  {(IF a < 0 THEN <<>> ELSE <<InvRow("M1", a)>>)
     \o (IF b < 0 THEN <<>> ELSE <<InvRow("M2", b)>>) :
   a, b \in (0 - 1)..MaxQty}

Snapshot(sched, lines, caps, bom, inv, prods) ==
  [schedule |-> Frame("schedule", sched),
   lines |-> Frame("lines", lines),
   capability |-> Frame("capability", caps),
   bom |-> Frame("bom", bom),
   inventory |-> Frame("inventory", inv),
   products |-> Frame("products", prods)]

(* schedules and line capacities vary; both lines can run P1; the firm     *)
(* runs are of P1 and the flexible ones of P2 (simulate_request never       *)
(* reads the product of a schedule row); L2 makes one case a day and its    *)
(* runs are of one case                                                     *)
WalkSnapshots ==
  {Snapshot(s, <<LineRow("L1", c), LineRow("L2", 1)>>,
            <<CapRow("L1", "P1"), CapRow("L2", "P1")>>,
            <<[product_id |-> "P1", material_id |-> "M1", qty_per_case |-> 1,
               supplier_lead_time_days |-> 7]>>,
            <<InvRow("M1", MaxQty)>>,
            <<ProductRow("P1")>>) :
   s \in SeqsUpTo2({r \in ScheduleRow(1..MaxQty) :
                      /\ r.is_firm <=> r.product_id = "P1"
                      /\ r.line_id = "L2" => r.planned_qty_cases = 1}),
   c \in 0..MaxCap}

(* bill of materials and inventory vary; the other product needs one unit  *)
(* of M1 a case                                                             *)
MaterialSnapshots ==
  {Snapshot(<<[line_id |-> "L1", production_date |-> [day |-> 1], product_id |-> "P2",
               planned_qty_cases |-> 1, is_firm |-> FALSE]>>,
            <<LineRow("L1", MaxCap)>>,
            <<CapRow("L1", "P1"), CapRow("L1", "P2")>>,
            b, i, <<ProductRow("P1")>>) :
   b \in SeqsUpTo2({r \in BomRow :
                      r.product_id = "P2" =>
                        r.material_id = "M1" /\ r.qty_per_case = 1}),
   i \in Inventories}

(* capability list and lines table vary *)
CapabilitySnapshots ==
  {Snapshot(<<s>>, l, c,
            <<[product_id |-> "P1", material_id |-> "M1", qty_per_case |-> 1,
               supplier_lead_time_days |-> 7]>>,
            <<InvRow("M1", MaxQty)>>,
            <<ProductRow("P1"), ProductRow("P2")>>) :
   s \in {r \in ScheduleRow(0..MaxQty) : r.product_id = "P1" /\ ~r.is_firm},
   l \in {<<>>, <<LineRow("L1", MaxCap)>>, <<LineRow("L2", 1), LineRow("L1", MaxCap)>>},
   c \in SeqsUpTo2({CapRow(x, p) : x \in LineIds, p \in ProductIds})}

Snapshots == WalkSnapshots \cup MaterialSnapshots \cup CapabilitySnapshots

(* the snapshots on which several calls are made in a row *)
RepeatSnapshots ==
  {Snapshot(<<s>>, <<LineRow("L1", MaxCap)>>,
            <<CapRow("L1", "P1")>>,
            <<[product_id |-> "P1", material_id |-> "M1", qty_per_case |-> 1,
               supplier_lead_time_days |-> 7]>>,
            <<InvRow("M1", MaxQty)>>,
            <<ProductRow("P1")>>) :
   s \in {r \in ScheduleRow(1..MaxQty) :
            r.product_id = "P1" /\ r.line_id = "L1"}}

Requests ==
  [product_id : ProductIds, extra_cases : (0 - 1)..MaxExtra,
   due_date : [day : 1..MaxDate]]
  \cup [product_id : ProductIds, extra_cases : {1}, due_date : {[text |-> "soon"]}]

NoCall == [none |-> TRUE]

(* ---------------- the state machine ---------------- *)
(* lines 233-306: the snapshot load_master_data_for_sim returns; no call yet *)
Init ==
  /\ data \in Snapshots
  /\ loaded = data
  /\ calls_left = 1
  /\ earlier = <<>>
  /\ request = NoCall
  /\ outcome = "none"
  /\ result = NoResult
  /\ visited = <<>>

(* one call simulate_request(product_id, extra_cases, due_date_str, data) *)
Simulate(r) ==
  LET out == simulate_request(r.product_id, r.extra_cases, r.due_date, data)
  IN /\ calls_left > 0
     /\ calls_left' = calls_left - 1
     /\ earlier' = IF outcome = "none" THEN earlier
                   ELSE Append(earlier, [request |-> request, outcome |-> outcome,
                                         result |-> result])
     /\ request' = r
     /\ outcome' = out.outcome
     /\ result' = out.result
     /\ visited' = out.visited
     /\ data' = out.data
     /\ UNCHANGED loaded

Next ==
  \E r \in Requests :
    /\ r.product_id \in {data.products.rows[i].product_id :
                           i \in 1..Len(data.products.rows)}
    /\ Simulate(r)

Spec == Init /\ [][Next]_vars

(* the same calls, up to MaxCalls of them in a row on one snapshot *)
InitRepeat ==
  /\ data \in RepeatSnapshots
  /\ loaded = data
  /\ calls_left = MaxCalls
  /\ earlier = <<>>
  /\ request = NoCall
  /\ outcome = "none"
  /\ result = NoResult
  /\ visited = <<>>

SpecRepeat == InitRepeat /\ [][Next]_vars

(* ================= the claims ================= *)
(* What the claims say is stated over the snapshot as loaded, with the      *)
(* quantities of a line-day computed here from its rows.                    *)
Returned == outcome = "returned"

SnapSchedule == loaded.schedule.rows

RECURSIVE SnapSum(_, _, _, _)
(* planned quantity of the first n schedule rows on (line, day) whose      *)
(* is_firm flag is in kinds                                                 *)
SnapSum(n, line, day, kinds) ==
  IF n = 0 THEN 0
  ELSE (IF /\ SnapSchedule[n].line_id = line
           /\ SnapSchedule[n].production_date.day = day
           /\ SnapSchedule[n].is_firm \in kinds
        THEN SnapSchedule[n].planned_qty_cases ELSE 0)
       + SnapSum(n - 1, line, day, kinds)

SnapPlanned(line, day) == SnapSum(Len(SnapSchedule), line, day, BOOLEAN)
SnapFlexible(line, day) == SnapSum(Len(SnapSchedule), line, day, {FALSE})
SnapFirm(line, day) == SnapSum(Len(SnapSchedule), line, day, {TRUE})

SnapCapacity(line) ==
  LET i == CHOOSE i \in 1..Len(loaded.lines.rows) :
             /\ loaded.lines.rows[i].line_id = line
             /\ \A j \in 1..(i - 1) : loaded.lines.rows[j].line_id # line
  IN loaded.lines.rows[i].daily_capacity_cases

SnapHeadroom(line, day) ==
  IF SnapCapacity(line) > SnapPlanned(line, day)
  THEN SnapCapacity(line) - SnapPlanned(line, day)
  ELSE 0

SnapCapable(product) ==
  {loaded.capability.rows[i].line_id :
     i \in {j \in 1..Len(loaded.capability.rows) :
              loaded.capability.rows[j].product_id = product}}

RECURSIVE PlanAllocated(_)
PlanAllocated(rows) ==
  IF rows = <<>> THEN 0
  ELSE rows[1].allocated_cases + PlanAllocated(Tail(rows))

Steps == {result.plan_rows[i] : i \in 1..Len(result.plan_rows)}

(* C1 Conservation: whenever simulate_request returns, on the normal path   *)
(* and on the no-capable-line path, the allocated_cases of the plan rows    *)
(* sum to allocated_total, and that sum plus remaining is the requested     *)
(* number of extra cases.                                                   *)
C1_Conservation ==
  Returned =>
    /\ PlanAllocated(result.plan_rows) + result.remaining = request.extra_cases
    /\ result.allocated_total = PlanAllocated(result.plan_rows)

(* a partial plan of two steps, one of which displaces flexible work *)
C1_Witness ==
  /\ Returned
  /\ Len(result.plan_rows) >= 2
  /\ result.remaining > 0
  /\ \E st \in Steps : st.bumped_flexible > 0

(* C2 Firm inviolability: the bumped_flexible of every plan row is at most  *)
(* the planned quantity of the non-firm schedule rows of that line and      *)
(* date in the snapshot; firm rows add nothing to it.                       *)
C2_FirmInviolable ==
  Returned =>
    \A st \in Steps :
      st.bumped_flexible <= SnapFlexible(st.line_id, st.production_date)

(* a step displaces flexible work on a line-day that also carries firm work *)
C2_Witness ==
  /\ Returned
  /\ \E st \in Steps :
       /\ st.bumped_flexible > 0
       /\ st.bumped_flexible = SnapFlexible(st.line_id, st.production_date)
       /\ SnapFirm(st.line_id, st.production_date) > 0

(* C3 Input validation: a request for zero or fewer extra cases is         *)
(* rejected with an error before any allocation; it never comes back as a  *)
(* result, feasible or infeasible.                                          *)
C3_NonPositiveRejected ==
  (outcome # "none" /\ request.extra_cases <= 0) => outcome = "raised"

(* C4 Feasibility rule: the returned can_fulfill flag is true exactly when  *)
(* remaining is zero and the material shortage list is empty.               *)
C4_FeasibleIff ==
  Returned =>
    (result.can_fulfill <=>
       (result.remaining = 0 /\ result.material_blockers = <<>>))

(* C5 No-capability short-circuit: when the capability list has no row for  *)
(* the requested product, the call returns remaining = requested, nothing   *)
(* allocated, an empty plan, infeasible, with a capacity-shortage note, and *)
(* computes no line-day, whatever the schedule, lines, BOM and inventory.   *)
C5_NoCapableLine ==
  (Returned /\ SnapCapable(request.product_id) = {}) =>
    /\ result.remaining = request.extra_cases
    /\ result.allocated_total = 0
    /\ result.plan_rows = <<>>
    /\ result.can_fulfill = FALSE
    /\ result.capacity_blockers # <<>>
    /\ visited = <<>>

(* no row for the requested product, though another product has one, the   *)
(* line is in the lines table with capacity and the schedule has a          *)
(* flexible entry inside the window                                         *)
C5_Witness ==
  /\ Returned
  /\ SnapCapable(request.product_id) = {}
  /\ request.extra_cases > 0
  /\ \E l \in LineIds :
       /\ \E p \in ProductIds : l \in SnapCapable(p)
       /\ \E i \in 1..Len(loaded.lines.rows) :
            /\ loaded.lines.rows[i].line_id = l
            /\ loaded.lines.rows[i].daily_capacity_cases > 0
       /\ \E i \in 1..Len(SnapSchedule) :
            /\ SnapSchedule[i].line_id = l
            /\ SnapSchedule[i].production_date.day <= request.due_date.day
            /\ SnapSchedule[i].planned_qty_cases > 0

SnapBom(product) == SelectSeq(loaded.bom.rows, LAMBDA r : r.product_id = product)

SnapOnHand(material) ==
  IF \E i \in 1..Len(loaded.inventory.rows) :
       loaded.inventory.rows[i].material_id = material
  THEN loaded.inventory.rows[
         CHOOSE i \in 1..Len(loaded.inventory.rows) :
           loaded.inventory.rows[i].material_id = material].on_hand_qty
  ELSE 0

Blockers == {result.material_blockers[i] : i \in 1..Len(result.material_blockers)}

(* C6 Material math: with a capable line and a bill of materials, every BOM *)
(* line of the requested product requires qty_per_case times the cases the  *)
(* plan allocates (not the cases requested); it is listed as a shortage,    *)
(* of required minus on-hand, exactly when required exceeds on-hand, and    *)
(* the list holds nothing else.                                             *)
C6_MaterialMath ==
  (/\ Returned
   /\ SnapCapable(request.product_id) # {}
   /\ SnapBom(request.product_id) # <<>>) =>
    LET bom == SnapBom(request.product_id)
        need(i) == bom[i].qty_per_case * PlanAllocated(result.plan_rows)
        have(i) == SnapOnHand(bom[i].material_id)
        short == {i \in 1..Len(bom) : need(i) > have(i)}
    IN /\ \A i \in 1..Len(bom) :
            (need(i) > have(i)) <=>
              \E b \in Blockers :
                b.material = bom[i].material_id /\ b.shortage = need(i) - have(i)
       /\ \A b \in Blockers :
            \E i \in short :
              b.material = bom[i].material_id /\ b.shortage = need(i) - have(i)
       /\ Len(result.material_blockers) = Cardinality(short)

(* a partly covered request: one material is short for the allocated cases, *)
(* another is not, though it would be for the requested cases               *)
C6_Witness ==
  /\ Returned
  /\ result.remaining > 0
  /\ result.allocated_total > 0
  /\ LET bom == SnapBom(request.product_id)
     IN /\ \E i \in 1..Len(bom) :
             bom[i].qty_per_case * result.allocated_total
               > SnapOnHand(bom[i].material_id)
        /\ \E j \in 1..Len(bom) :
             /\ bom[j].qty_per_case * result.allocated_total
                  <= SnapOnHand(bom[j].material_id)
             /\ bom[j].qty_per_case * request.extra_cases
                  > SnapOnHand(bom[j].material_id)
             /\ \A b \in Blockers : b.material # bom[j].material_id

(* C7 Due-date boundary: no plan row and no computed line-day is dated      *)
(* after the due date; a computed line-day counts the schedule rows of its  *)
(* own date only; and rows dated on or before the due date, the due date    *)
(* itself included, take part: when the request is not fully covered,       *)
(* every such date was computed for every capable line of the lines table.  *)
C7_DueDateBoundary ==
  Returned =>
    LET due == request.due_date.day
    IN /\ \A st \in Steps : st.production_date <= due
       /\ \A k \in 1..Len(visited) :
            /\ visited[k].date <= due
            /\ \E i \in 1..Len(SnapSchedule) :
                 SnapSchedule[i].production_date.day = visited[k].date
            /\ visited[k].total_planned
                 = SnapPlanned(visited[k].line_id, visited[k].date)
            /\ visited[k].flex_cases
                 = SnapFlexible(visited[k].line_id, visited[k].date)
       /\ result.remaining > 0 =>
            \A i \in 1..Len(SnapSchedule) :
              SnapSchedule[i].production_date.day <= due =>
                \A l \in SnapCapable(request.product_id) :
                  (\E n \in 1..Len(loaded.lines.rows) :
                     loaded.lines.rows[n].line_id = l) =>
                    \E k \in 1..Len(visited) :
                      /\ visited[k].line_id = l
                      /\ visited[k].date = SnapSchedule[i].production_date.day

(* a step on the due date itself, while the day after holds flexible work   *)
(* on a capable line and the request stays partly uncovered                 *)
C7_Witness ==
  /\ Returned
  /\ result.remaining > 0
  /\ \E st \in Steps : st.production_date = request.due_date.day
  /\ \E i \in 1..Len(SnapSchedule) :
       /\ SnapSchedule[i].production_date.day = request.due_date.day + 1
       /\ ~SnapSchedule[i].is_firm
       /\ SnapSchedule[i].planned_qty_cases > 0
       /\ SnapSchedule[i].line_id \in SnapCapable(request.product_id)

(* C8 Read-only, independent evaluation: a call leaves every collection of  *)
(* the snapshot as it was loaded, and after any sequence of calls on one    *)
(* snapshot each call's result is the one the request gets alone on the     *)
(* snapshot as loaded.                                                      *)
C8_ReadOnlyIndependent ==
  /\ data = loaded
  /\ Returned =>
       result = simulate_request(request.product_id, request.extra_cases,
                                 request.due_date, loaded).result
  /\ \A k \in 1..Len(earlier) :
       earlier[k].outcome = "returned" =>
         earlier[k].result
           = simulate_request(earlier[k].request.product_id,
                              earlier[k].request.extra_cases,
                              earlier[k].request.due_date, loaded).result

(* two calls in a row: the first takes all the capacity there is and stays  *)
(* short, the second is still offered the same capacity                     *)
C8_Witness ==
  /\ Len(earlier) >= 1
  /\ earlier[1].outcome = "returned"
  /\ earlier[1].result.allocated_total > 0
  /\ earlier[1].result.remaining > 0
  /\ Returned
  /\ result.allocated_total = earlier[1].result.allocated_total
  /\ request.due_date = earlier[1].request.due_date

(* C9 Headroom non-negativity: the headroom of every computed line-day is   *)
(* daily capacity minus the planned quantity of all its rows (firm and      *)
(* flexible, any product), or 0 when that is negative; so no used_headroom  *)
(* is negative.                                                             *)
C9_HeadroomClamped ==
  Returned =>
    /\ \A k \in 1..Len(visited) :
         /\ visited[k].headroom = SnapHeadroom(visited[k].line_id, visited[k].date)
         /\ visited[k].headroom >= 0
    /\ \A st \in Steps : st.used_headroom >= 0

(* an over-planned line-day, firm and flexible rows together above the      *)
(* daily capacity, has headroom 0 and a step that uses none                 *)
C9_Witness ==
  /\ Returned
  /\ \E k \in 1..Len(visited) :
       /\ visited[k].total_planned > visited[k].daily_capacity
       /\ SnapFirm(visited[k].line_id, visited[k].date) > 0
       /\ SnapFlexible(visited[k].line_id, visited[k].date) > 0
       /\ visited[k].headroom = 0
       /\ \E st \in Steps :
            /\ st.line_id = visited[k].line_id
            /\ st.production_date = visited[k].date
            /\ st.used_headroom = 0

(* C10 Step split: every plan row has used_headroom = min(headroom of its   *)
(* line-day, allocated_cases) and bumped_flexible = allocated_cases minus   *)
(* used_headroom, never negative; flexible work is displaced only once the  *)
(* whole headroom is used.                                                  *)
C10_StepSplit ==
  Returned =>
    \A st \in Steps :
      LET h == SnapHeadroom(st.line_id, st.production_date)
      IN /\ st.used_headroom = (IF h <= st.allocated_cases THEN h
                                ELSE st.allocated_cases)
         /\ st.bumped_flexible = st.allocated_cases - st.used_headroom
         /\ st.bumped_flexible >= 0
         /\ st.allocated_cases = st.used_headroom + st.bumped_flexible
         /\ st.bumped_flexible > 0 => st.used_headroom = h

(* one step takes the whole headroom and displaces flexible work as well,   *)
(* another step of the same plan draws on headroom alone                    *)
C10_Witness ==
  /\ Returned
  /\ \E st \in Steps : st.used_headroom > 0 /\ st.bumped_flexible > 0
  /\ \E st \in Steps : st.used_headroom > 0 /\ st.bumped_flexible = 0

(* position of a line in the capability list: the index of the first row    *)
(* that pairs it with the product                                           *)
SnapLinePos(product, line) ==
  CHOOSE i \in 1..Len(loaded.capability.rows) :
    /\ loaded.capability.rows[i].product_id = product
    /\ loaded.capability.rows[i].line_id = line
    /\ \A j \in 1..(i - 1) :
         ~(/\ loaded.capability.rows[j].product_id = product
           /\ loaded.capability.rows[j].line_id = line)

(* C11 Iteration order: the plan rows come in ascending date order and,     *)
(* within one date, in the order in which their lines first appear in the   *)
(* capability list for the product: from each row to the next the pair      *)
(* (date, line position) strictly increases, and no (line, date) has more   *)
(* than one row.                                                            *)
C11_IterationOrder ==
  Returned =>
    LET plan == result.plan_rows
        pos(st) == SnapLinePos(request.product_id, st.line_id)
    IN /\ \A k \in 1..Len(plan) : plan[k].line_id \in SnapCapable(request.product_id)
       /\ \A k \in 1..(Len(plan) - 1) :
            \/ plan[k].production_date < plan[k + 1].production_date
            \/ /\ plan[k].production_date = plan[k + 1].production_date
               /\ pos(plan[k]) < pos(plan[k + 1])
       /\ \A j, k \in 1..Len(plan) :
            (/\ plan[j].line_id = plan[k].line_id
             /\ plan[j].production_date = plan[k].production_date) => j = k

(* two rows on one date, the line listed first in the capability list first *)
(* though it comes second in the lines table                                *)
C11_Witness ==
  /\ Returned
  /\ Len(result.plan_rows) = 2
  /\ result.plan_rows[1].production_date = result.plan_rows[2].production_date
  /\ result.plan_rows[1].line_id = "L1"
  /\ result.plan_rows[2].line_id = "L2"
  /\ loaded.lines.rows[1].line_id = "L2"

(* what a line-day offers: its headroom plus its flexible planned quantity  *)
SnapAvailable(line, day) == SnapHeadroom(line, day) + SnapFlexible(line, day)

(* cases still to place when plan row k is made *)
RemainingBefore(k) ==
  request.extra_cases - PlanAllocated(SubSeq(result.plan_rows, 1, k - 1))

(* C12 Greedy earliest-first saturation: every plan row allocates           *)
(* min(headroom + flexible quantity of its line-day, cases still to place); *)
(* the walk stops once nothing is left to place, so no line-day is computed *)
(* and no row is made after that; every row but the last takes all its      *)
(* line-day offers; and when cases are left at the end, every computed      *)
(* line-day that offered anything has a row that took all of it.            *)
C12_GreedySaturation ==
  Returned =>
    LET plan == result.plan_rows
        avail(st) == SnapAvailable(st.line_id, st.production_date)
    IN /\ \A k \in 1..Len(plan) :
            /\ RemainingBefore(k) > 0
            /\ plan[k].allocated_cases
                 = (IF avail(plan[k]) <= RemainingBefore(k)
                    THEN avail(plan[k]) ELSE RemainingBefore(k))
            /\ k < Len(plan) => plan[k].allocated_cases = avail(plan[k])
       /\ \A k \in 1..Len(visited) : visited[k].remaining_before > 0
       /\ result.remaining > 0 =>
            \A k \in 1..Len(visited) :
              SnapAvailable(visited[k].line_id, visited[k].date) > 0 =>
                \E st \in Steps :
                  /\ st.line_id = visited[k].line_id
                  /\ st.production_date = visited[k].date
                  /\ st.allocated_cases = avail(st)

(* the first row takes all its line-day offers, the last one only the rest  *)
(* of the request, less than its line-day offers                            *)
C12_Witness ==
  /\ Returned
  /\ Len(result.plan_rows) >= 2
  /\ result.remaining = 0
  /\ LET first == result.plan_rows[1]
         last == result.plan_rows[Len(result.plan_rows)]
     IN /\ first.allocated_cases = SnapAvailable(first.line_id, first.production_date)
        /\ last.allocated_cases < SnapAvailable(last.line_id, last.production_date)

(* C13 Firm work fits after allocation, as stated: for every plan row the   *)
(* firm planned quantity of its (line, date) plus its allocated_cases is at *)
(* most the daily capacity of the line, over-planned line-days included.    *)
C13_FirmFitsCapacity ==
  Returned =>
    \A st \in Steps :
      SnapFirm(st.line_id, st.production_date) + st.allocated_cases
        <= SnapCapacity(st.line_id)

(* C13 as amended: for every plan row the firm planned quantity of its      *)
(* (line, date) plus its allocated_cases is at most the larger of the daily *)
(* capacity and the total planned quantity of that line-day; so it fits the *)
(* daily capacity on every line-day that is not over-planned, and on an     *)
(* over-planned one it stays within what was planned there already.         *)
C13_FirmFitsPlanned ==
  Returned =>
    \A st \in Steps :
      LET firm == SnapFirm(st.line_id, st.production_date)
          planned == SnapPlanned(st.line_id, st.production_date)
          cap == SnapCapacity(st.line_id)
      IN /\ firm + st.allocated_cases <= (IF cap >= planned THEN cap ELSE planned)
         /\ planned <= cap => firm + st.allocated_cases <= cap

(* a row on an over-planned line-day: it displaces all the flexible work    *)
(* there, and with the firm work left in place the line is above its        *)
(* daily capacity                                                           *)
C13_Witness ==
  /\ Returned
  /\ \E st \in Steps :
       /\ SnapPlanned(st.line_id, st.production_date) > SnapCapacity(st.line_id)
       /\ SnapFirm(st.line_id, st.production_date) > 0
       /\ SnapFirm(st.line_id, st.production_date) + st.allocated_cases
            > SnapCapacity(st.line_id)
       /\ SnapFirm(st.line_id, st.production_date) + st.allocated_cases
            = SnapPlanned(st.line_id, st.production_date)

(* the dates of the schedule rows, of any line and product, on or before    *)
(* the due date                                                             *)
SnapWindowDays ==
  {SnapSchedule[i].production_date.day :
     i \in {j \in 1..Len(SnapSchedule) :
              SnapSchedule[j].production_date.day <= request.due_date.day}}

SnapTableLines == {loaded.lines.rows[i].line_id : i \in 1..Len(loaded.lines.rows)}

(* cases still to place when the walk comes to a date *)
RemainingAt(day) ==
  request.extra_cases
    - PlanAllocated(SelectSeq(result.plan_rows,
                              LAMBDA st : st.production_date < day))

(* C14 Only dates carrying schedule entries are walked: every computed      *)
(* line-day and every plan row is on the date of a schedule row (any line,  *)
(* any product) on or before the due date, and each such date is walked, in *)
(* turn, as long as cases are left to place; a capable line without a row   *)
(* on a walked date offers its whole daily capacity as headroom; with no    *)
(* schedule row on or before the due date the plan is empty and remaining   *)
(* is the requested quantity, whatever capacity the capable lines have.     *)
C14_ScheduleDatesOnly ==
  Returned =>
    LET walkable == SnapCapable(request.product_id) \cap SnapTableLines
    IN /\ \A st \in Steps : st.production_date \in SnapWindowDays
       /\ \A k \in 1..Len(visited) : visited[k].date \in SnapWindowDays
       /\ \A d \in SnapWindowDays :
            (\E k \in 1..Len(visited) : visited[k].date = d)
              <=> (walkable # {} /\ RemainingAt(d) > 0)
       /\ \A k \in 1..Len(visited) :
            (\A i \in 1..Len(SnapSchedule) :
               ~(/\ SnapSchedule[i].line_id = visited[k].line_id
                 /\ SnapSchedule[i].production_date.day = visited[k].date))
              => visited[k].headroom = SnapCapacity(visited[k].line_id)
       /\ SnapWindowDays = {} =>
            /\ result.plan_rows = <<>>
            /\ result.remaining = request.extra_cases

(* a capable line with no row of its own on a date that another line's row  *)
(* carries gives its whole daily capacity, while an earlier day without any *)
(* row is not walked and the request stays partly uncovered                 *)
C14_Witness ==
  /\ Returned
  /\ result.remaining > 0
  /\ SnapWindowDays = {request.due_date.day}
  /\ request.due_date.day > 1
  /\ \E st \in Steps :
       /\ SnapPlanned(st.line_id, st.production_date) = 0
       /\ \A i \in 1..Len(SnapSchedule) : SnapSchedule[i].line_id # st.line_id
       /\ st.allocated_cases = SnapCapacity(st.line_id)
       /\ st.used_headroom = st.allocated_cases

(* C15 No empty steps: a computed line-day that offers nothing (headroom    *)
(* plus flexible quantity <= 0) gets no plan row; every plan row has        *)
(* allocated_cases > 0; the cases still to place strictly decrease with     *)
(* each row; and they are never negative, neither after a row nor in the    *)
(* returned remaining.                                                      *)
C15_NoEmptySteps ==
  Returned =>
    /\ \A k \in 1..Len(visited) :
         SnapAvailable(visited[k].line_id, visited[k].date) <= 0 =>
           \A st \in Steps :
             ~(st.line_id = visited[k].line_id /\ st.production_date = visited[k].date)
    /\ \A st \in Steps : st.allocated_cases > 0
    /\ \A k \in 1..Len(result.plan_rows) :
         /\ RemainingBefore(k + 1) < RemainingBefore(k)
         /\ RemainingBefore(k + 1) >= 0
    /\ result.remaining >= 0

(* the loaded snapshot with another bill of materials and inventory: the    *)
(* requested product needs nothing of one material and no stock is held     *)
SnapNoMaterialNeeds ==
  [loaded EXCEPT
     !.bom = Frame("bom", <<[product_id |-> request.product_id, material_id |-> "M1",
                             qty_per_case |-> 0, supplier_lead_time_days |-> 7]>>),
     !.inventory = Frame("inventory", <<>>)]

(* C16 Plan independent of materials: the plan, allocated_total and         *)
(* remaining of a call are those the same request gets on the snapshot with *)
(* the same schedule, lines and capability and another bill of materials    *)
(* and inventory, one without any shortage; so snapshots that differ in     *)
(* BOM and inventory only give the same three, and a material shortage      *)
(* neither removes nor shrinks a plan row.                                  *)
C16_PlanIgnoresMaterials ==
  Returned =>
    LET other == simulate_request(request.product_id, request.extra_cases,
                                  request.due_date, SnapNoMaterialNeeds).result
    IN /\ result.plan_rows = other.plan_rows
       /\ result.allocated_total = other.allocated_total
       /\ result.remaining = other.remaining

(* a fully covered request that a material shortage makes infeasible: the   *)
(* plan row that covers it is returned all the same                         *)
C16_Witness ==
  /\ Returned
  /\ request.extra_cases > 0
  /\ result.remaining = 0
  /\ Len(result.plan_rows) >= 1
  /\ ~result.can_fulfill
  /\ \E b \in Blockers : b.shortage > 0
  /\ PlanAllocated(result.plan_rows) = request.extra_cases

(* C17 Missing BOM: when a line can run the product and the bill of         *)
(* materials has no row for it, the material shortage list is exactly the   *)
(* one note that there is no BOM, and the result is infeasible, for every   *)
(* requested quantity and schedule, also when remaining is 0.               *)
C17_MissingBom ==
  (/\ Returned
   /\ SnapCapable(request.product_id) # {}
   /\ SnapBom(request.product_id) = <<>>) =>
    /\ Len(result.material_blockers) = 1
    /\ result.material_blockers[1].material = "none"
    /\ result.can_fulfill = FALSE

(* the whole request is placed, the bill of materials has rows of another   *)
(* product only and stock is held, and still the result is infeasible       *)
C17_Witness ==
  /\ Returned
  /\ SnapCapable(request.product_id) # {}
  /\ SnapBom(request.product_id) = <<>>
  /\ loaded.bom.rows # <<>>
  /\ loaded.inventory.rows # <<>>
  /\ request.extra_cases > 0
  /\ result.allocated_total = request.extra_cases
  /\ result.remaining = 0
  /\ ~result.can_fulfill

SnapStocked(material) ==
  \E i \in 1..Len(loaded.inventory.rows) :
    loaded.inventory.rows[i].material_id = material

(* C18 Missing inventory record: a BOM material of the product without an   *)
(* inventory row counts as 0 on hand and the call returns all the same; the *)
(* material is listed as short, by the whole required quantity              *)
(* qty_per_case * allocated_total, exactly when that quantity is positive.  *)
C18_MissingInventory ==
  (/\ Returned
   /\ SnapCapable(request.product_id) # {}) =>
    LET bom == SnapBom(request.product_id)
        need(i) == bom[i].qty_per_case * PlanAllocated(result.plan_rows)
        listed(m) == SelectSeq(result.material_blockers, LAMBDA b : b.material = m)
    IN \A i \in 1..Len(bom) :
         ~SnapStocked(bom[i].material_id) =>
           /\ need(i) > 0 <=>
                \E b \in Blockers :
                  b.material = bom[i].material_id /\ b.shortage = need(i)
           /\ Len(listed(bom[i].material_id))
                = Cardinality({j \in 1..Len(bom) :
                                 /\ bom[j].material_id = bom[i].material_id
                                 /\ need(j) > 0})

(* one BOM material has no inventory row and is short by all that the       *)
(* allocated cases require, another is in stock; the request is covered in  *)
(* part only                                                                *)
C18_Witness ==
  /\ Returned
  /\ result.allocated_total > 0
  /\ result.remaining > 0
  /\ LET bom == SnapBom(request.product_id)
     IN /\ \E i \in 1..Len(bom) :
             /\ ~SnapStocked(bom[i].material_id)
             /\ \E b \in Blockers :
                  /\ b.material = bom[i].material_id
                  /\ b.shortage = bom[i].qty_per_case * result.allocated_total
                  /\ b.shortage > 0
        /\ \E j \in 1..Len(bom) : SnapStocked(bom[j].material_id)

(* C19 Capacity-shortage reporting: for every request of a positive         *)
(* quantity the capacity shortage list of the result is non-empty exactly   *)
(* when remaining > 0, on the no-capable-line path as well.                 *)
C19_CapacityReporting ==
  (Returned /\ request.extra_cases > 0) =>
    (result.capacity_blockers # <<>> <=> result.remaining > 0)

(* a request covered in part: one capacity note, for the cases left over    *)
C19_Witness ==
  /\ Returned
  /\ request.extra_cases > 0
  /\ result.allocated_total > 0
  /\ result.remaining > 0
  /\ Len(result.capacity_blockers) = 1
  /\ result.capacity_blockers[1].short = result.remaining

(* the kinds of the clauses of the returned message, in order *)
MessageClauses == [i \in 1..Len(result.message) |-> result.message[i].clause]

(* C20 Message composition: when a line can run the product, a feasible     *)
(* result carries the one affirmative sentence, for the requested quantity; *)
(* the message of an infeasible result is, in this order, the covered       *)
(* clause exactly when allocated_total > 0, the unfulfilled clause exactly  *)
(* when remaining > 0 and the material clause exactly when the material     *)
(* shortage list is non-empty, so that it has at least one clause.          *)
C20_MessageComposition ==
  (Returned /\ SnapCapable(request.product_id) # {}) =>
    /\ result.can_fulfill =>
         /\ MessageClauses = <<"approved">>
         /\ result.message[1].cases = request.extra_cases
    /\ ~result.can_fulfill =>
         /\ MessageClauses
              = (IF result.allocated_total > 0 THEN <<"cover">> ELSE <<>>)
                \o (IF result.remaining > 0 THEN <<"remaining">> ELSE <<>>)
                \o (IF result.material_blockers # <<>> THEN <<"materials">> ELSE <<>>)
         /\ Len(result.message) >= 1
         /\ \A i \in 1..Len(result.message) :
              /\ result.message[i].clause = "cover"
                   => result.message[i].cases = result.allocated_total
              /\ result.message[i].clause = "remaining"
                   => result.message[i].cases = result.remaining
              /\ result.message[i].clause = "materials"
                   => result.message[i].cases = Len(result.material_blockers)

(* an infeasible result with all three clauses: part of the request is      *)
(* covered, part is left and a material is short                            *)
C20_Witness ==
  /\ Returned
  /\ ~result.can_fulfill
  /\ result.allocated_total > 0
  /\ result.remaining > 0
  /\ result.material_blockers # <<>>
  /\ MessageClauses = <<"cover", "remaining", "materials">>

====
